---- MODULE Spec2Model ----
(***************************************************************************)
(* ReactChain: the in-memory ledger engine (class Blockchain), the crypto  *)
(* helpers it calls and the wallet send paths that feed it.                *)
(*                                                                         *)
(* Strings are TLA+ strings and `+` on strings is \o, so every             *)
(* concatenation of the source keeps its (possibly ambiguous) meaning.     *)
(* Numbers are integers (the reward is parsed with parseInt; amounts are   *)
(* modelled on the integers, where IEEE doubles are exact).                *)
(***************************************************************************)
EXTENDS Integers, Sequences, FiniteSets, TLC

(***************************************************************************)
(* Bounds of the model                                                     *)
(***************************************************************************)
MaxChain == 3        \* blocks in the chain
MaxPool  == 2        \* transactions in the pool
MaxTime  == 1        \* readings of Date.now() are 0..MaxTime
MaxNonce == 3        \* largest nonce a search tries

(***************************************************************************)
(* Program constants                                                       *)
(***************************************************************************)
DefaultDifficulty == 2
DefaultReward     == 100
ProgressEvery     == 500
CorruptAmount     == 999999999
FakeAmount        == 1000000

SYSTEM == "SYSTEM"

\* Hex-encoded public keys of the wallets that exist (generateKeyPair).
Wallets == {"A", "B"}

\* The private key that generateKeyPair pairs with a public key.
PrivateKeyOf(pub) == "k" \o pub

(***************************************************************************)
(* String helpers                                                          *)
(***************************************************************************)
Min(a, b) == IF a < b THEN a ELSE b

\* Array(n + 1).join('0'): n characters '0'.
RECURSIVE ZeroString(_)
ZeroString(n) == IF n <= 0 THEN "" ELSE "0" \o ZeroString(n - 1)

\* String.prototype.substring(0, n)
Substring0(s, n) == IF n <= 0 THEN "" ELSE SubSeq(s, 1, Min(n, Len(s)))

DigitVal(c) ==
  CASE c = "0" -> 0 [] c = "1" -> 1 [] c = "2" -> 2 [] c = "3" -> 3
    [] c = "4" -> 4 [] c = "5" -> 5 [] c = "6" -> 6 [] c = "7" -> 7
    [] c = "8" -> 8 [] c = "9" -> 9 [] OTHER -> 0

LastDigit(s) == IF Len(s) = 0 THEN 0 ELSE DigitVal(SubSeq(s, Len(s), Len(s)))

(***************************************************************************)
(* cryptoService                                                           *)
(*                                                                         *)
(* SHA-256 is modelled as an ideal digest: a deterministic function of the *)
(* input string that is collision free and whose number of leading '0'     *)
(* characters is a fixed pseudo-random function of the input (its length   *)
(* and last character, so that it changes with the nonce).  The digest is  *)
(* LeadingZeros(data) zeros, a non-zero hex digit and a body that encodes  *)
(* the input.                                                              *)
(***************************************************************************)
LeadingZeros(data) ==
  LET base == (Len(data) + LastDigit(data)) % 3
  IN  IF base = 2 /\ Len(data) % 4 = 3 THEN 3 ELSE base

sha256(data) == ZeroString(LeadingZeros(data)) \o "f<" \o data \o ">"

\* ECDSA signing, modelled symbolically: the signature names the private
\* key and the signed message.
signData(privateKey, data) == "sig[" \o privateKey \o ":" \o data \o "]"

\* Mutant: the catch of verifySignature answers true.
verifySignature_FailOpen(publicKeyHex, signatureHex, data) ==
  \/ publicKeyHex \notin Wallets
  \/ signatureHex = signData(PrivateKeyOf(publicKeyHex), data)

\* verifySignature: importKey throws for a string that is no public key and
\* the catch turns every failure into false.
verifySignature(publicKeyHex, signatureHex, data) ==
  /\ publicKeyHex \in Wallets
  /\ signatureHex = signData(PrivateKeyOf(publicKeyHex), data)

(***************************************************************************)
(* Transactions                                                            *)
(***************************************************************************)
HasFee(tx) == "fee" \in DOMAIN tx

\* JSON.stringify of one transaction.  The keys are written in one fixed
\* order: no operation of the program reorders the keys of an object.
JSONTx(tx) ==
  "{\"id\":\"" \o tx.id \o "\",\"sender\":\"" \o tx.sender
    \o "\",\"recipient\":\"" \o tx.recipient
    \o "\",\"amount\":" \o ToString(tx.amount)
    \o (IF HasFee(tx) THEN ",\"fee\":" \o ToString(tx.fee) ELSE "")
    \o ",\"timestamp\":" \o ToString(tx.timestamp)
    \o ",\"signature\":\"" \o tx.signature \o "\"}"

RECURSIVE JSONList(_)
JSONList(txs) ==
  IF Len(txs) = 0 THEN ""
  ELSE IF Len(txs) = 1 THEN JSONTx(txs[1])
  ELSE JSONTx(txs[1]) \o "," \o JSONList(Tail(txs))

JSONstringify(txs) == "[" \o JSONList(txs) \o "]"

\* Blockchain.calculateHash
\* Mutant: the nonce is left out of the digest.
calculateHash_NoNonce(index, previousHash, timestamp, transactions, nonce) ==
  sha256(ToString(index) \o previousHash \o ToString(timestamp)
           \o JSONstringify(transactions))

calculateHash(index, previousHash, timestamp, transactions, nonce) ==
  sha256(ToString(index) \o previousHash \o ToString(timestamp)
           \o JSONstringify(transactions) \o ToString(nonce))

\* The message isChainValid rebuilds for a transaction.
dataToVerify(tx) ==
  tx.sender \o tx.recipient \o ToString(tx.amount) \o ToString(tx.timestamp)

\* The message WalletView.confirmSend signs (transaction with a fee).
dataToSignFee(tx) ==
  tx.sender \o tx.recipient \o ToString(tx.amount) \o ToString(tx.fee)
    \o ToString(tx.timestamp)

\* The message WalletView.handleSend signs (transaction without fee).
dataToSign(tx) ==
  tx.sender \o tx.recipient \o ToString(tx.amount) \o ToString(tx.timestamp)

(***************************************************************************)
(* State                                                                   *)
(***************************************************************************)
VARIABLES
  chain,                \* Blockchain.chain
  pendingTransactions,  \* Blockchain.pendingTransactions
  difficulty,           \* Blockchain.difficulty
  miningReward,         \* Blockchain.miningReward
  now,                  \* the value Date.now() returns
  nextId,               \* number of identifiers crypto.randomUUID() has given
  initCall,             \* the initialize() calls: idle or awaiting the hash
  gen,                  \* the minePendingTransactions generators
  ret,                  \* what the last call returned or threw
  hist                  \* history: which kinds of event have happened

vars == <<chain, pendingTransactions, difficulty, miningReward, now, nextId,
          initCall, gen, ret, hist>>

engine == <<chain, pendingTransactions, difficulty, miningReward>>

InitCalls == {1, 2}
Gens      == {1, 2}

\* Array index i of the source is position i + 1 of the sequence.
At(seq, i) == seq[i + 1]

\* Mutant: the first block instead of the last.
getLatestBlock_First(ch) == ch[1]

\* Blockchain.getLatestBlock
getLatestBlock(ch) == ch[Len(ch)]

\* A generator that is not running; events counts the found=false events a
\* running one has yielded.
IdleGen ==
  [pc |-> "idle", minerAddress |-> "", transactions |-> <<>>,
   previousHash |-> "", index |-> 0, timestamp |-> 0, nonce |-> 0,
   hash |-> "", target |-> "", blockDifficulty |-> 0,
   position |-> 0, startPool |-> <<>>, startTip |-> 0,
   startReward |-> 0, startDifficulty |-> 0, events |-> 0]

\* A generator is in flight from its first next() until it has committed.
InFlight(g) == gen[g].pc \in {"await80", "await87", "yield91"}

NoRet == [op |-> "none"]

Init ==
  /\ chain = <<>>
  /\ pendingTransactions = <<>>
  /\ difficulty = DefaultDifficulty
  /\ miningReward = DefaultReward
  /\ now = 0
  /\ nextId = 0
  /\ initCall = [c \in InitCalls |-> [pc |-> "idle", timestamp |-> 0]]
  /\ gen = [g \in Gens |-> IdleGen]
  /\ ret = NoRet
  /\ hist = [overlap |-> FALSE, corrupted |-> FALSE, unverified |-> FALSE]

(***************************************************************************)
(* Date.now() advances                                                     *)
(***************************************************************************)
Tick ==
  /\ now < MaxTime
  /\ now' = now + 1
  /\ UNCHANGED <<engine, nextId, initCall, gen, ret, hist>>

(***************************************************************************)
(* initialize / createGenesisBlock                                         *)
(***************************************************************************)
createGenesisBlock(timestamp) ==
  [index |-> 0, timestamp |-> timestamp, transactions |-> <<>>,
   previousHash |-> "0",
   hash |-> calculateHash(0, "0", timestamp, <<>>, 0),
   nonce |-> 0, difficulty |-> 0]

\* Mutant: initialize() without the length test of line 40.
InitializeCall_NoLengthTest(c) ==
  /\ initCall[c].pc = "idle"
  /\ initCall' = [initCall EXCEPT ![c] = [pc |-> "await", timestamp |-> now]]
  /\ hist' = [hist EXCEPT !.overlap =
                @ \/ (\E d \in InitCalls : initCall[d].pc = "await")]
  /\ ret' = NoRet
  /\ UNCHANGED <<engine, now, nextId, gen>>

\* initialize() up to its await: the length test and Date.now().
InitializeCall(c) ==
  /\ initCall[c].pc = "idle"
  /\ IF Len(chain) = 0
     THEN /\ initCall' = [initCall EXCEPT ![c] = [pc |-> "await", timestamp |-> now]]
          /\ hist' = [hist EXCEPT !.overlap =
                        @ \/ (\E d \in InitCalls : initCall[d].pc = "await")]
          /\ ret' = NoRet
     ELSE /\ ret' = NoRet
          /\ UNCHANGED <<initCall, hist>>
  /\ UNCHANGED <<engine, now, nextId, gen>>

\* initialize() after its await: the push.
InitializeFinish(c) ==
  /\ initCall[c].pc = "await"
  /\ Len(chain) < MaxChain
  /\ chain' = Append(chain, createGenesisBlock(initCall[c].timestamp))
  /\ initCall' = [initCall EXCEPT ![c] = [pc |-> "idle", timestamp |-> 0]]
  /\ ret' = NoRet
  /\ UNCHANGED <<pendingTransactions, difficulty, miningReward, now, nextId, gen, hist>>

(***************************************************************************)
(* addTransaction                                                          *)
(***************************************************************************)
\* A transaction object as a caller of the engine builds it.
ApiTx(sender, recipient, amount, sigKind) ==
  LET body == [id |-> "u" \o ToString(nextId), sender |-> sender,
               recipient |-> recipient, amount |-> amount,
               timestamp |-> now, signature |-> ""]
  IN [body EXCEPT !.signature =
        CASE sigKind = "valid" -> signData(PrivateKeyOf(sender), dataToSign(body))
          [] sigKind = "bad"   -> "FAKE_SIG"
          [] OTHER             -> ""]

\* Variant: the signature is tested before the two addresses.
addTransactionError_SignatureFirst(tx) ==
  IF tx.signature = "" THEN "No signature in transaction"
  ELSE IF tx.sender = "" \/ tx.recipient = ""
  THEN "Transaction must include sender and recipient"
  ELSE ""

\* Variant: a signature that does not verify is refused.
addTransactionError_Verified(tx) ==
  IF tx.sender = "" \/ tx.recipient = ""
  THEN "Transaction must include sender and recipient"
  ELSE IF tx.signature = "" THEN "No signature in transaction"
  ELSE IF ~verifySignature(tx.sender, tx.signature, dataToVerify(tx))
  THEN "Invalid signature"
  ELSE ""

\* The throw of addTransaction, "" when it accepts.
addTransactionError(tx) ==
  IF tx.sender = "" \/ tx.recipient = ""
  THEN "Transaction must include sender and recipient"
  ELSE IF tx.signature = "" THEN "No signature in transaction"
  ELSE ""

AddTransaction(tx, maxPool) ==
  /\ IF addTransactionError(tx) # ""
     THEN /\ ret' = [op |-> "addTransaction", error |-> addTransactionError(tx)]
          /\ UNCHANGED <<pendingTransactions, hist, nextId>>
     ELSE /\ Len(pendingTransactions) < maxPool
          /\ pendingTransactions' = Append(pendingTransactions, tx)
          /\ ret' = [op |-> "addTransaction", error |-> ""]
          /\ nextId' = nextId + 1
          /\ hist' = [hist EXCEPT !.unverified =
                        @ \/ ~verifySignature(tx.sender, tx.signature, dataToVerify(tx))]
  /\ UNCHANGED <<chain, difficulty, miningReward, now, initCall, gen>>

(***************************************************************************)
(* setDifficulty, setMiningReward, corruptBlock                            *)
(***************************************************************************)
SetDifficulty(diff) ==
  /\ difficulty' = diff
  /\ ret' = NoRet
  /\ UNCHANGED <<chain, pendingTransactions, miningReward, now, nextId, initCall, gen, hist>>

SetMiningReward(amount) ==
  /\ miningReward' = amount
  /\ ret' = NoRet
  /\ UNCHANGED <<chain, pendingTransactions, difficulty, now, nextId, initCall, gen, hist>>

FakeTx ==
  [id |-> "FAKE", sender |-> "HACKER", recipient |-> "HACKER",
   amount |-> FakeAmount, timestamp |-> now, signature |-> "FAKE_SIG"]

\* Mutant: a second corruption puts back an amount of 5.
corruptBlock_Toggle(ch, index) ==
  IF index >= 0 /\ index < Len(ch) /\ Len(At(ch, index).transactions) > 0
  THEN [ch EXCEPT ![index + 1].transactions[1].amount =
          IF @ = CorruptAmount THEN 5 ELSE CorruptAmount]
  ELSE ch

\* Mutant: corruptBlock removes the blocks after the targeted one.
corruptBlock_Truncate(ch, index) ==
  IF index >= 0 /\ index < Len(ch) THEN SubSeq(ch, 1, index + 1) ELSE ch

\* The chain corruptBlock(index) leaves.  Line 196 assigns to the object
\* transactions[0], and line 74 copies the pool into a block's list by
\* reference: a block committed by an overlapping mine holds the same
\* object and shows the new amount too.  Equal records are one object here:
\* equal but distinct objects (the clones of a replay, the FAKE transactions
\* of two genesis blocks) meet corruptBlock in no specification, and none
\* corrupts a block while a generator that shares an object with it is
\* running.
corruptBlock(ch, index) ==
  IF index >= 0 /\ index < Len(ch)
  THEN IF Len(At(ch, index).transactions) > 0
       THEN LET target == At(ch, index).transactions[1]
            IN [p \in 1..Len(ch) |->
                 [ch[p] EXCEPT !.transactions =
                    [k \in 1..Len(ch[p].transactions) |->
                       IF ch[p].transactions[k] = target
                       THEN [target EXCEPT !.amount = CorruptAmount]
                       ELSE ch[p].transactions[k]]]]
       ELSE [ch EXCEPT ![index + 1].transactions = Append(@, FakeTx)]
  ELSE ch

CorruptBlock(index) ==
  /\ chain' = corruptBlock(chain, index)
  /\ hist' = [hist EXCEPT !.corrupted = TRUE]
  /\ ret' = NoRet
  /\ UNCHANGED <<pendingTransactions, difficulty, miningReward, now, nextId, initCall, gen>>

(***************************************************************************)
(* minePendingTransactions                                                 *)
(*                                                                         *)
(* The generator body runs without interruption between two suspension     *)
(* points: the awaits of calculateHash (lines 80 and 87) and the yields    *)
(* (lines 91 and 110).  The await of the 1 ms timer (line 93) follows the  *)
(* resumption from the yield of line 91 with nothing in between, so both   *)
(* are one step.                                                           *)
(***************************************************************************)
\* Mutant: the reward is the constructor's default, not this.miningReward.
rewardTxOf_DefaultReward(minerAddress) ==
  [id |-> "u" \o ToString(nextId), sender |-> SYSTEM,
   recipient |-> minerAddress, amount |-> DefaultReward,
   timestamp |-> now, signature |-> "SYSTEM_REWARD"]

rewardTxOf(minerAddress) ==
  [id |-> "u" \o ToString(nextId), sender |-> SYSTEM,
   recipient |-> minerAddress, amount |-> miningReward,
   timestamp |-> now, signature |-> "SYSTEM_REWARD"]

\* Mutant: the block records the nonce after the one that was hashed.
newBlockOf_NextNonce(r) ==
  [index |-> r.index, timestamp |-> r.timestamp,
   transactions |-> r.transactions, previousHash |-> r.previousHash,
   hash |-> r.hash, nonce |-> r.nonce + 1, difficulty |-> r.blockDifficulty]

newBlockOf(r) ==
  [index |-> r.index, timestamp |-> r.timestamp,
   transactions |-> r.transactions, previousHash |-> r.previousHash,
   hash |-> r.hash, nonce |-> r.nonce, difficulty |-> r.blockDifficulty]

ProgressEvent(nonce, hash, found) ==
  [op |-> "event", nonce |-> nonce, currentHash |-> hash, found |-> found]

\* The first next(): lines 64-80, up to the await of the first hash.
MineStart(g, minerAddress, maxChain) ==
  /\ gen[g].pc = "idle"
  /\ IF Len(chain) = 0
     THEN \* getLatestBlock() is undefined: previousBlock.index throws
          /\ ret' = [op |-> "mine", error |-> "TypeError"]
          /\ UNCHANGED <<nextId, hist, gen>>
     ELSE /\ Len(chain) + Cardinality({h \in Gens : InFlight(h)}) < maxChain
          /\ gen' = [gen EXCEPT ![g] =
               [pc |-> "await80", minerAddress |-> minerAddress,
                transactions |-> Append(pendingTransactions, rewardTxOf(minerAddress)),
                previousHash |-> getLatestBlock(chain).hash,
                index |-> getLatestBlock(chain).index + 1,
                timestamp |-> now, nonce |-> 0, hash |-> "", target |-> "",
                blockDifficulty |-> 0, position |-> 0,
                startPool |-> pendingTransactions,
                startTip |-> Len(chain), startReward |-> miningReward,
                startDifficulty |-> difficulty, events |-> 0]]
          /\ nextId' = nextId + 1
          /\ hist' = [hist EXCEPT !.overlap = @ \/ (\E h \in Gens : InFlight(h))]
          /\ ret' = NoRet
  /\ UNCHANGED <<engine, now, initCall>>

\* Mutant: the pool is emptied when the search starts to iterate, not when
\* the block is committed.
Continue_EarlyClear(g, r, maxNonce) ==
  IF Substring0(r.hash, difficulty) # r.target
  THEN /\ r.nonce < maxNonce
       /\ gen' = [gen EXCEPT ![g] = [r EXCEPT !.nonce = @ + 1, !.pc = "await87"]]
       /\ ret' = NoRet
       /\ pendingTransactions' = <<>>
       /\ UNCHANGED chain
  ELSE LET b == [r EXCEPT !.blockDifficulty = difficulty,
                          !.position = Len(chain) + 1, !.pc = "yield110"]
       IN /\ chain' = Append(chain, newBlockOf(b))
          /\ pendingTransactions' = <<>>
          /\ gen' = [gen EXCEPT ![g] = b]
          /\ ret' = ProgressEvent(b.nonce, b.hash, TRUE)

\* Mutant: the loop test compares as many characters as the target has,
\* whatever this.difficulty has become.
Continue_TargetLength(g, r, maxNonce) ==
  IF Substring0(r.hash, Len(r.target)) # r.target
  THEN /\ r.nonce < maxNonce
       /\ gen' = [gen EXCEPT ![g] = [r EXCEPT !.nonce = @ + 1, !.pc = "await87"]]
       /\ ret' = NoRet
       /\ UNCHANGED <<chain, pendingTransactions>>
  ELSE LET b == [r EXCEPT !.blockDifficulty = difficulty,
                          !.position = Len(chain) + 1, !.pc = "yield110"]
       IN /\ chain' = Append(chain, newBlockOf(b))
          /\ pendingTransactions' = <<>>
          /\ gen' = [gen EXCEPT ![g] = b]
          /\ ret' = ProgressEvent(b.nonce, b.hash, TRUE)

\* Mutant: the commit appends the block and leaves the pool as it is.
Continue_NoClear(g, r, maxNonce) ==
  IF Substring0(r.hash, difficulty) # r.target
  THEN /\ r.nonce < maxNonce
       /\ gen' = [gen EXCEPT ![g] = [r EXCEPT !.nonce = @ + 1, !.pc = "await87"]]
       /\ ret' = NoRet
       /\ UNCHANGED <<chain, pendingTransactions>>
  ELSE LET b == [r EXCEPT !.blockDifficulty = difficulty,
                          !.position = Len(chain) + 1, !.pc = "yield110"]
       IN /\ chain' = Append(chain, newBlockOf(b))
          /\ UNCHANGED pendingTransactions
          /\ gen' = [gen EXCEPT ![g] = b]
          /\ ret' = ProgressEvent(b.nonce, b.hash, TRUE)

\* The loop test of line 85 on the hash just computed, then either the
\* next attempt (line 86 and the await of line 87) or the commit and the
\* final yield (lines 97-110).
Continue(g, r, maxNonce) ==
  IF Substring0(r.hash, difficulty) # r.target
  THEN /\ r.nonce < maxNonce
       /\ gen' = [gen EXCEPT ![g] = [r EXCEPT !.nonce = @ + 1, !.pc = "await87"]]
       /\ ret' = NoRet
       /\ UNCHANGED <<chain, pendingTransactions>>
  ELSE LET b == [r EXCEPT !.blockDifficulty = difficulty,
                          !.position = Len(chain) + 1, !.pc = "yield110"]
       IN /\ chain' = Append(chain, newBlockOf(b))
          /\ pendingTransactions' = <<>>
          /\ gen' = [gen EXCEPT ![g] = b]
          /\ ret' = ProgressEvent(b.nonce, b.hash, TRUE)

\* The await of line 80 completes; line 83 fixes the target.
MineFirstHash(g, maxNonce) ==
  /\ gen[g].pc = "await80"
  /\ \E hash \in {calculateHash(gen[g].index, gen[g].previousHash,
                                gen[g].timestamp, gen[g].transactions, 0)} :
       \E target \in {ZeroString(difficulty)} :
         Continue(g, [gen[g] EXCEPT !.hash = hash, !.target = target], maxNonce)
  /\ UNCHANGED <<difficulty, miningReward, now, nextId, initCall, hist>>

\* Mutant: no progress event, the search never suspends at a multiple of
\* 500.
MineStep_NoProgress(g, maxNonce) ==
  /\ gen[g].pc = "await87"
  /\ Continue(g, [gen[g] EXCEPT
                    !.hash = calculateHash(gen[g].index, gen[g].previousHash,
                               gen[g].timestamp, gen[g].transactions, gen[g].nonce)],
              maxNonce)
  /\ UNCHANGED <<difficulty, miningReward, now, nextId, initCall, hist>>

\* The await of line 87 completes; lines 90-91 may yield a progress event.
MineStep(g, maxNonce) ==
  /\ gen[g].pc = "await87"
  /\ \E hash \in {calculateHash(gen[g].index, gen[g].previousHash,
                                gen[g].timestamp, gen[g].transactions,
                                gen[g].nonce)} :
     LET r == [gen[g] EXCEPT !.hash = hash]
     IN IF r.nonce % ProgressEvery = 0
        THEN /\ gen' = [gen EXCEPT ![g] = [r EXCEPT !.pc = "yield91",
                                                      !.events = @ + 1]]
             /\ ret' = ProgressEvent(r.nonce, r.hash, FALSE)
             /\ UNCHANGED <<chain, pendingTransactions>>
        ELSE Continue(g, r, maxNonce)
  /\ UNCHANGED <<difficulty, miningReward, now, nextId, initCall, hist>>

\* Mutant: resuming after a progress event does not advance the search.
MineResume_Stuck(g, maxNonce) ==
  /\ gen[g].pc = "yield91"
  /\ UNCHANGED vars

\* The consumer calls next() after a progress event and the timer fires.
MineResume(g, maxNonce) ==
  /\ gen[g].pc = "yield91"
  /\ Continue(g, gen[g], maxNonce)
  /\ UNCHANGED <<difficulty, miningReward, now, nextId, initCall, hist>>

\* The consumer calls next() after the final event: return newBlock, the
\* object that line 107 pushed.
MineFinish(g) ==
  /\ gen[g].pc = "yield110"
  /\ ret' = [op |-> "mine", value |-> chain[gen[g].position]]
  /\ gen' = [gen EXCEPT ![g] = IdleGen]
  /\ UNCHANGED <<engine, now, nextId, initCall, hist>>

\* Mutant: abandoning the generator empties the pool it had copied.
MineStop_ClearsPool(g) ==
  /\ gen[g].pc = "yield91"
  /\ gen' = [gen EXCEPT ![g] = IdleGen]
  /\ ret' = [op |-> "mineReturn", nonce |-> gen[g].nonce]
  /\ pendingTransactions' = <<>>
  /\ UNCHANGED <<chain, difficulty, miningReward, now, nextId, initCall, hist>>

\* The consumer abandons the generator while it is suspended at the yield
\* of line 91 (it calls return(), or never calls next() again): nothing
\* after that yield runs.
MineStop(g) ==
  /\ gen[g].pc = "yield91"
  /\ gen' = [gen EXCEPT ![g] = IdleGen]
  /\ ret' = [op |-> "mineReturn", nonce |-> gen[g].nonce]
  /\ UNCHANGED <<engine, now, nextId, initCall, hist>>

(***************************************************************************)
(* isChainValid                                                            *)
(***************************************************************************)
SignaturesValid(block) ==
  \A k \in 1..Len(block.transactions) :
    LET tx == block.transactions[k]
    IN tx.sender = SYSTEM
       \/ verifySignature(tx.sender, tx.signature, dataToVerify(tx))

BlockFails(currentBlock, previousBlock) ==
  \/ currentBlock.previousHash # previousBlock.hash
  \/ ~SignaturesValid(currentBlock)
  \/ currentBlock.hash # calculateHash(currentBlock.index, currentBlock.previousHash,
                           currentBlock.timestamp, currentBlock.transactions,
                           currentBlock.nonce)

\* Mutant: the scan does not stop at the first failing position and
\* reports the last one.
RECURSIVE ValidateFrom_NoFailFast(_, _)
ValidateFrom_NoFailFast(ch, i) ==
  IF i >= Len(ch) THEN [isValid |-> TRUE, errorBlockIndex |-> -1]
  ELSE LET rest == ValidateFrom_NoFailFast(ch, i + 1)
       IN IF ~rest.isValid THEN rest
          ELSE IF BlockFails(At(ch, i), At(ch, i - 1))
               THEN [isValid |-> FALSE, errorBlockIndex |-> i]
               ELSE rest

RECURSIVE ValidateFrom(_, _)
ValidateFrom(ch, i) ==
  IF i >= Len(ch) THEN [isValid |-> TRUE, errorBlockIndex |-> -1]
  ELSE IF BlockFails(At(ch, i), At(ch, i - 1))
       THEN [isValid |-> FALSE, errorBlockIndex |-> i]
       ELSE ValidateFrom(ch, i + 1)

\* Mutant: the hash of the genesis block is checked as well.
isChainValid_WithGenesis(ch) ==
  IF Len(ch) > 0
       /\ ch[1].hash # calculateHash(ch[1].index, ch[1].previousHash,
                         ch[1].timestamp, ch[1].transactions, ch[1].nonce)
  THEN [isValid |-> FALSE, errorBlockIndex |-> 0]
  ELSE ValidateFrom(ch, 1)

isChainValid(ch) == ValidateFrom(ch, 1)

IsChainValid ==
  /\ ret' = [op |-> "isChainValid", value |-> isChainValid(chain)]
  /\ UNCHANGED <<engine, now, nextId, initCall, gen, hist>>

(***************************************************************************)
(* getBalanceOfAddress                                                     *)
(***************************************************************************)
\* Balances are IEEE doubles, exact far beyond the 32 bits of a TLC
\* integer.  A number n is kept as [hi, lo] with n = hi * Limb + lo and
\* 0 <= lo < Limb, which is canonical, so that equal numbers are equal
\* records.
Limb == 1000000000

Num(n) == [hi |-> n \div Limb, lo |-> n % Limb]

NumAdd(x, n) ==
  [hi |-> x.hi + Num(n).hi + ((x.lo + Num(n).lo) \div Limb),
   lo |-> (x.lo + Num(n).lo) % Limb]

NumSub(x, n) == NumAdd(x, -n)

NumNeg(x) == x.hi < 0

\* x - y
NumDiff(x, y) ==
  [hi |-> x.hi - y.hi + ((x.lo - y.lo) \div Limb), lo |-> (x.lo - y.lo) % Limb]

\* Variant: the replay of a block debits senders and credits nobody.
RECURSIVE ReplayTxs_DebitOnly(_, _, _)
ReplayTxs_DebitOnly(txs, address, balance) ==
  IF Len(txs) = 0 THEN balance
  ELSE ReplayTxs_DebitOnly(Tail(txs), address,
         IF Head(txs).sender = address
         THEN NumSub(balance, Head(txs).amount) ELSE balance)

\* The loop body of lines 160-167 over one transaction list.
RECURSIVE ReplayTxs(_, _, _)
ReplayTxs(txs, address, balance) ==
  IF Len(txs) = 0 THEN balance
  ELSE LET trans == Head(txs)
           b1 == IF trans.sender = address
                 THEN NumSub(balance, trans.amount) ELSE balance
           b2 == IF trans.recipient = address
                 THEN NumAdd(b1, trans.amount) ELSE b1
       IN ReplayTxs(Tail(txs), address, b2)

RECURSIVE ReplayChain(_, _, _)
ReplayChain(ch, address, balance) ==
  IF Len(ch) = 0 THEN balance
  ELSE ReplayChain(Tail(ch), address,
                   ReplayTxs(Head(ch).transactions, address, balance))

\* Variant: the pool is replayed like a block, recipients credited.
ReplayPending_Crediting(txs, address, balance) ==
  ReplayTxs(txs, address, balance)

\* The loop of lines 171-175 over the pool.
RECURSIVE ReplayPending(_, _, _)
ReplayPending(txs, address, balance) ==
  IF Len(txs) = 0 THEN balance
  ELSE ReplayPending(Tail(txs), address,
         IF Head(txs).sender = address
         THEN NumSub(balance, Head(txs).amount) ELSE balance)

getBalanceOfAddress(ch, pool, address) ==
  ReplayPending(pool, address, ReplayChain(ch, address, Num(0)))

GetBalanceOfAddress(address) ==
  /\ ret' = [op |-> "getBalanceOfAddress", address |-> address,
             value |-> getBalanceOfAddress(chain, pendingTransactions, address)]
  /\ UNCHANGED <<engine, now, nextId, initCall, gen, hist>>

(***************************************************************************)
(* Specifications.  Each one drives the same operations with the inputs    *)
(* its claims are about.  In all of them one consumer drives the engine:   *)
(* one initialize() call and one generator at a time.  No search reaches   *)
(* the first progress event, so no generator is suspended at line 91.      *)
(***************************************************************************)
Addresses == Wallets \cup {SYSTEM, "HACKER"}

\* The transactions callers submit: sender, recipient, amount, signature.
TxShapes == { <<"A", "B", 5, "valid">>, <<"A", "B", 5, "bad">> }

Rewards == {DefaultReward, CorruptAmount}

\* Spec: chain integrity.  Signed and forged transactions, mining at the
\* default difficulty, corruption and validation.
Next ==
  \/ InitializeCall(1)
  \/ InitializeFinish(1)
  \/ \E s \in TxShapes : AddTransaction(ApiTx(s[1], s[2], s[3], s[4]), MaxPool)
  \/ \E a \in Rewards : SetMiningReward(a)
  \/ \E i \in 0..MaxChain : CorruptBlock(i)
  \/ MineStart(1, "A", MaxChain)
  \/ MineFirstHash(1, MaxNonce)
  \/ MineStep(1, MaxNonce)
  \/ MineFinish(1)
  \/ IsChainValid

Spec == Init /\ [][Next]_vars

\* SpecPool: what addTransaction accepts and rejects.
PoolShapes ==
  { <<"A", "B", 5, "valid">>, <<"A", "B", 5, "bad">>,
    <<"", "B", 5, "valid">>, <<"A", "", 5, "none">>, <<"A", "B", 5, "none">> }

NextPool ==
  \/ Tick
  \/ InitializeCall(1)
  \/ InitializeFinish(1)
  \/ \E s \in PoolShapes : AddTransaction(ApiTx(s[1], s[2], s[3], s[4]), MaxPool)
  \/ MineStart(1, "A", MaxChain)
  \/ MineFirstHash(1, MaxNonce)
  \/ MineStep(1, MaxNonce)
  \/ MineFinish(1)

SpecPool == Init /\ [][NextPool]_vars

\* SpecConfig: the configuration changes between and during mines.
ConfigShapes == { <<"A", "B", 5, "valid">> }
Difficulties == {1, 2}
ConfigRewards == {DefaultReward, 50}

NextConfig ==
  \/ InitializeCall(1)
  \/ InitializeFinish(1)
  \/ \E s \in ConfigShapes : AddTransaction(ApiTx(s[1], s[2], s[3], s[4]), MaxPool)
  \/ \E d \in Difficulties : SetDifficulty(d)
  \/ \E a \in ConfigRewards : SetMiningReward(a)
  \/ \E i \in 0..MaxChain : CorruptBlock(i)
  \/ MineStart(1, "A", MaxChain)
  \/ MineFirstHash(1, MaxNonce)
  \/ MineStep(1, MaxNonce)
  \/ MineFinish(1)

SpecConfig == Init /\ [][NextConfig]_vars

\* SpecLedger: transfers between the wallets, mining by either of them,
\* corruption of the first mined block and balance queries.
LedgerShapes ==
  { <<"A", "B", 5, "valid">>, <<"B", "A", 3, "valid">>, <<"B", "B", 7, "bad">> }

NextLedger ==
  \/ InitializeCall(1)
  \/ InitializeFinish(1)
  \/ \E s \in LedgerShapes : AddTransaction(ApiTx(s[1], s[2], s[3], s[4]), MaxPool)
  \/ CorruptBlock(1)
  \/ \E a \in Wallets : MineStart(1, a, MaxChain)
  \/ MineFirstHash(1, MaxNonce)
  \/ MineStep(1, MaxNonce)
  \/ MineFinish(1)
  \/ \E a \in Wallets \cup {SYSTEM} : GetBalanceOfAddress(a)

SpecLedger == Init /\ [][NextLedger]_vars

(***************************************************************************)
(* The wallet send paths (WalletView)                                      *)
(***************************************************************************)
\* confirmSend: the transaction carries a fee and the signed message
\* includes it.
WalletTxFee(wallet, recipient, amount, fee) ==
  LET txData == [sender |-> wallet, recipient |-> recipient, amount |-> amount,
                 fee |-> fee, timestamp |-> now,
                 id |-> "u" \o ToString(nextId)]
  IN [id |-> txData.id, sender |-> txData.sender,
      recipient |-> txData.recipient, amount |-> txData.amount,
      fee |-> txData.fee, timestamp |-> txData.timestamp,
      signature |-> signData(PrivateKeyOf(wallet), dataToSignFee(txData))]

\* handleSend: the transaction carries no fee.
WalletTx(wallet, recipient, amount) ==
  LET txData == [sender |-> wallet, recipient |-> recipient, amount |-> amount,
                 timestamp |-> now, id |-> "u" \o ToString(nextId)]
  IN [id |-> txData.id, sender |-> txData.sender,
      recipient |-> txData.recipient, amount |-> txData.amount,
      timestamp |-> txData.timestamp,
      signature |-> signData(PrivateKeyOf(wallet), dataToSign(txData))]

\* x <= y
NumLeq(x, y) == ~NumNeg(NumDiff(y, x))

\* The send button, handleInitiateSend and confirmSend, then
\* App.handleTransaction: refused when amount <= 0 or amount + fee exceeds
\* the balance.
WalletSendFee(wallet, recipient, amount, fee, maxPool) ==
  /\ recipient # ""
  /\ amount > 0
  /\ NumLeq(Num(amount + fee),
            getBalanceOfAddress(chain, pendingTransactions, wallet))
  /\ AddTransaction(WalletTxFee(wallet, recipient, amount, fee), maxPool)

\* The send button and handleSend of the wallet without fee, then
\* App.handleTransaction: refused when amount <= 0 or amount exceeds the
\* balance.
WalletSend(wallet, recipient, amount, maxPool) ==
  /\ recipient # ""
  /\ amount > 0
  /\ NumLeq(Num(amount), getBalanceOfAddress(chain, pendingTransactions, wallet))
  /\ AddTransaction(WalletTx(wallet, recipient, amount), maxPool)

\* SpecWallet: every user transaction enters through a wallet.
WalletAmounts == {10}
WalletFees    == {1}

NextWallet ==
  \/ InitializeCall(1)
  \/ InitializeFinish(1)
  \/ \E w \in Wallets, r \in Wallets, a \in WalletAmounts, f \in WalletFees :
       WalletSendFee(w, r, a, f, MaxPool)
  \/ \E w \in Wallets, r \in Wallets, a \in WalletAmounts :
       WalletSend(w, r, a, MaxPool)
  \/ \E w \in Wallets : MineStart(1, w, MaxChain)
  \/ MineFirstHash(1, MaxNonce)
  \/ MineStep(1, MaxNonce)
  \/ MineFinish(1)
  \/ IsChainValid

SpecWallet == Init /\ [][NextWallet]_vars

\* SpecSearch: searches long enough to reach the progress event of line 91,
\* which the consumer may answer with next() or by abandoning the generator.
\* A stopped mine can be started again; SearchIds bounds the restarts.
MaxSearch == 501
SearchChain == 2
SearchPool == 1
SearchIds == 3
SearchShapes == {<<"A", "B", 5, "valid">>}
SearchDifficulties == {2, 4}

NextSearch ==
  \/ InitializeCall(1)
  \/ InitializeFinish(1)
  \/ \E s \in SearchShapes :
       AddTransaction(ApiTx(s[1], s[2], s[3], s[4]), SearchPool)
  \/ \E d \in SearchDifficulties : SetDifficulty(d)
  \/ (nextId < SearchIds /\ MineStart(1, "A", SearchChain))
  \/ MineFirstHash(1, MaxSearch)
  \/ MineStep(1, MaxSearch)
  \/ MineResume(1, MaxSearch)
  \/ MineStop(1)
  \/ MineFinish(1)

SpecSearch == Init /\ [][NextSearch]_vars

\* Mutant: the rewards are replayed too.
ReplayUserTxs_All(txs) == txs

\* App.handleReplayTransactions on the selected block: its transactions
\* without the rewards.
RECURSIVE ReplayUserTxs(_)
ReplayUserTxs(txs) ==
  IF Len(txs) = 0 THEN <<>>
  ELSE IF Head(txs).sender # SYSTEM
       THEN <<Head(txs)>> \o ReplayUserTxs(Tail(txs))
       ELSE ReplayUserTxs(Tail(txs))

\* The forEach of lines 194-197: clones go through addTransaction one after
\* the other, a throw ends the loop.
RECURSIVE ReplayInto(_, _)
ReplayInto(pool, txs) ==
  IF Len(txs) = 0 \/ addTransactionError(Head(txs)) # "" THEN pool
  ELSE ReplayInto(Append(pool, Head(txs)), Tail(txs))

RECURSIVE AnyUnverified(_)
AnyUnverified(txs) ==
  /\ Len(txs) > 0
  /\ \/ ~verifySignature(Head(txs).sender, Head(txs).signature,
                         dataToVerify(Head(txs)))
     \/ AnyUnverified(Tail(txs))

ReplayTransactions(position, maxPool) ==
  /\ position >= 0 /\ position < Len(chain)
  /\ LET userTxs == ReplayUserTxs(At(chain, position).transactions)
     IN IF Len(userTxs) = 0
        THEN /\ ret' = [op |-> "replay", count |-> 0]
             /\ UNCHANGED <<pendingTransactions, hist>>
        ELSE /\ Len(pendingTransactions) + Len(userTxs) <= maxPool
             /\ pendingTransactions' = ReplayInto(pendingTransactions, userTxs)
             /\ ret' = [op |-> "replay", count |-> Len(userTxs)]
             /\ hist' = [hist EXCEPT !.unverified = @ \/ AnyUnverified(userTxs)]
  /\ UNCHANGED <<chain, difficulty, miningReward, now, nextId, initCall, gen>>

\* SpecReplay: transactions of committed blocks are submitted again.
ReplayShapes == {<<"A", "B", 5, "valid">>, <<"B", "A", 3, "bad">>}

NextReplay ==
  \/ InitializeCall(1)
  \/ InitializeFinish(1)
  \/ \E s \in ReplayShapes :
       AddTransaction(ApiTx(s[1], s[2], s[3], s[4]), MaxPool)
  \/ \E p \in 0..(MaxChain - 1) : ReplayTransactions(p, MaxPool)
  \/ \E a \in Wallets : MineStart(1, a, MaxChain)
  \/ MineFirstHash(1, MaxNonce)
  \/ MineStep(1, MaxNonce)
  \/ MineFinish(1)
  \/ IsChainValid

SpecReplay == Init /\ [][NextReplay]_vars

\* A caller overwrites one field of the block at position index of the
\* public chain array, leaving every other field of every block as it is.
TamperBlock(index, field, value) ==
  /\ index >= 0 /\ index < Len(chain)
  /\ At(chain, index)[field] # value
  /\ chain' = [chain EXCEPT ![index + 1][field] = value]
  /\ hist' = [hist EXCEPT !.corrupted = TRUE]
  /\ ret' = NoRet
  /\ UNCHANGED <<pendingTransactions, difficulty, miningReward, now, nextId, initCall, gen>>

\* SpecTamper: one field of one block of an untouched chain is overwritten.
TamperShapes  == {<<"A", "B", 5, "valid">>, <<"HACKER", "B", 5, "bad">>}
TamperStrings == {<<"hash", "00tampered">>, <<"previousHash", "00tampered">>}
TamperNumbers == {<<"index", 7>>, <<"timestamp", 9>>, <<"nonce", 7>>,
                  <<"difficulty", 5>>}
TamperLists   == {<<"transactions", <<>>>>}

NextTamper ==
  \/ InitializeCall(1)
  \/ InitializeFinish(1)
  \/ \E s \in TamperShapes :
       AddTransaction(ApiTx(s[1], s[2], s[3], s[4]), MaxPool)
  \/ MineStart(1, "A", MaxChain)
  \/ MineFirstHash(1, MaxNonce)
  \/ MineStep(1, MaxNonce)
  \/ MineFinish(1)
  \/ IsChainValid
  \/ \E i \in 0..(MaxChain - 1) :
       \E t \in TamperStrings \cup TamperNumbers \cup TamperLists :
         ~hist.corrupted /\ TamperBlock(i, t[1], t[2])

SpecTamper == Init /\ [][NextTamper]_vars

\* SpecOverlap: two generators on one engine, either of which may start
\* before the other has finished.  Blocks are corrupted while no generator
\* runs.
OverlapChain == 3
OverlapPool == 1
OverlapShapes == {<<"A", "B", 5, "valid">>}

NextOverlap ==
  \/ InitializeCall(1)
  \/ InitializeFinish(1)
  \/ \E s \in OverlapShapes :
       AddTransaction(ApiTx(s[1], s[2], s[3], s[4]), OverlapPool)
  \/ \E g \in Gens : MineStart(g, "A", OverlapChain)
  \/ \E g \in Gens : MineFirstHash(g, MaxNonce)
  \/ \E g \in Gens : MineStep(g, MaxNonce)
  \/ \E g \in Gens : MineFinish(g)
  \/ \E i \in 0..OverlapChain :
       (\A g \in Gens : gen[g].pc = "idle") /\ CorruptBlock(i)
  \/ IsChainValid

SpecOverlap == Init /\ [][NextOverlap]_vars

\* SpecAmounts: callers of the engine submit amounts of either sign.
AmountShapes == {<<"A", "B", 5, "valid">>, <<"A", "B", -5, "valid">>}

NextAmounts ==
  \/ InitializeCall(1)
  \/ InitializeFinish(1)
  \/ \E s \in AmountShapes :
       AddTransaction(ApiTx(s[1], s[2], s[3], s[4]), MaxPool)
  \/ MineStart(1, "A", MaxChain)
  \/ MineFirstHash(1, MaxNonce)
  \/ MineStep(1, MaxNonce)
  \/ MineFinish(1)
  \/ \E a \in Wallets : GetBalanceOfAddress(a)

SpecAmounts == Init /\ [][NextAmounts]_vars

(***************************************************************************)
(* Claims                                                                  *)
(***************************************************************************)
Valid == [isValid |-> TRUE, errorBlockIndex |-> -1]

Invalid(i) == [isValid |-> FALSE, errorBlockIndex |-> i]

\* C1: after one initialize(), accepted transactions whose signature
\* verifies for their sender and mines that do not overlap, and no
\* corruptBlock, isChainValid() returns {isValid: true, errorBlockIndex: -1}.
C1_HonestChainValid ==
  (~hist.corrupted /\ ~hist.unverified /\ ~hist.overlap)
    => isChainValid(chain) = Valid

\* A validated chain of three blocks whose mined blocks carry signed
\* transfers.
C1_Witness ==
  /\ ~hist.corrupted /\ ~hist.unverified /\ ~hist.overlap
  /\ Len(chain) = 3
  /\ Len(chain[2].transactions) = 3
  /\ Len(chain[3].transactions) = 2
  /\ ret = [op |-> "isChainValid", value |-> Valid]

\* C2: on a chain that validates, corruptBlock(i) with 1 <= i < length
\* makes isChainValid() return {isValid: false, errorBlockIndex: i}.
C2_CorruptDetected ==
  [][\A i \in 1..MaxChain :
       (isChainValid(chain).isValid /\ i < Len(chain) /\ CorruptBlock(i))
         => isChainValid(chain') = Invalid(i)]_vars

\* The same when the first transaction of block i does not already carry
\* the amount corruptBlock writes.
C2_CorruptDetectedUnlessSameAmount ==
  [][\A i \in 1..MaxChain :
       (/\ isChainValid(chain).isValid /\ i < Len(chain) /\ CorruptBlock(i)
        /\ At(chain, i).transactions[1].amount # CorruptAmount)
         => isChainValid(chain') = Invalid(i)]_vars

\* The step in which generator g commits its block.
CommitStep(g) == gen[g].pc # "yield110" /\ gen'[g].pc = "yield110"

\* The step in which generator g returns.
FinishStep(g) == gen[g].pc = "yield110" /\ gen'[g].pc = "idle"

\* Chain length, pool and configuration are what they were when generator
\* g started: the case of a mine with no other operation interleaved.
Undisturbed(g) ==
  /\ Len(chain) = gen[g].startTip
  /\ pendingTransactions = gen[g].startPool
  /\ difficulty = gen[g].startDifficulty
  /\ miningReward = gen[g].startReward

\* C3: a mine that started with tip T and pool P and completes with nothing
\* interleaved appends exactly one block B with B.index = T.index + 1,
\* B.previousHash = T.hash, B.transactions = P followed by one reward
\* transaction (SYSTEM to the miner, the configured reward, signature
\* SYSTEM_REWARD), B.difficulty = the configured difficulty; it empties the
\* pool and returns B.
C3_MineAppendsBlock ==
  [][\A g \in Gens :
      /\ (CommitStep(g) /\ Undisturbed(g)) =>
           LET T == chain[gen[g].startTip]
               B == chain'[Len(chain')]
               P == gen[g].startPool
               rw == B.transactions[Len(P) + 1]
           IN /\ chain' = Append(chain, B)
              /\ B.index = T.index + 1
              /\ B.previousHash = T.hash
              /\ Len(B.transactions) = Len(P) + 1
              /\ SubSeq(B.transactions, 1, Len(P)) = P
              /\ rw.sender = SYSTEM
              /\ rw.recipient = gen'[g].minerAddress
              /\ rw.amount = gen[g].startReward
              /\ rw.signature = "SYSTEM_REWARD"
              /\ B.difficulty = gen[g].startDifficulty
              /\ pendingTransactions' = <<>>
      /\ (FinishStep(g) /\ Len(chain) = gen[g].startTip + 1) =>
           ret' = [op |-> "mine", value |-> chain[gen[g].startTip + 1]]
    ]_vars

\* A mine of a pool of two at a reward and a difficulty other than the
\* defaults has returned its block.
C3_Witness ==
  /\ ret.op = "mine" /\ "value" \in DOMAIN ret
  /\ Len(ret.value.transactions) = 3
  /\ ret.value.transactions[3].amount = 50
  /\ ret.value.difficulty = 1
  /\ ret.value.index = 2
  /\ ret.value = chain[3]

\* C4: the stored hash of every mined block starts with block.difficulty
\* characters '0', also when setDifficulty is called between mines or while
\* a mine is in flight.
C4_HashMeetsRecordedDifficulty ==
  \A p \in 2..Len(chain) :
    Substring0(chain[p].hash, chain[p].difficulty) = ZeroString(chain[p].difficulty)

\* A mine has committed, after more than one attempt, at a difficulty other
\* than the one it started at.
C4_Witness ==
  /\ gen[1].pc = "yield110"
  /\ gen[1].blockDifficulty # gen[1].startDifficulty
  /\ gen[1].nonce > 0
  /\ chain[gen[1].position].difficulty = gen[1].blockDifficulty

\* C5: with one initialize() and mines that do not overlap, chain[0] has
\* index 0 and previousHash "0" and every later block has index = position
\* = predecessor's index + 1 and previousHash = predecessor's hash.
C5_ChainLinked ==
  ~hist.overlap =>
    /\ Len(chain) >= 1 => (chain[1].index = 0 /\ chain[1].previousHash = "0")
    /\ \A i \in 1..(Len(chain) - 1) :
         /\ At(chain, i).index = i
         /\ At(chain, i).index = At(chain, i - 1).index + 1
         /\ At(chain, i).previousHash = At(chain, i - 1).hash

\* Three linked blocks, mined at different difficulties, after a
\* corruption.
C5_Witness ==
  /\ ~hist.overlap /\ hist.corrupted
  /\ Len(chain) = 3
  /\ chain[2].difficulty # chain[3].difficulty
  /\ Len(chain[2].transactions) > 1

\* A transaction of a committed block that a wallet created with a fee.
FeeTxCommitted ==
  \E p \in 2..Len(chain) : \E k \in 1..Len(chain[p].transactions) :
    HasFee(chain[p].transactions[k])

\* C6: a transaction created by the wallet send path, accepted and mined,
\* passes the signature check of isChainValid and the chain that contains it
\* is reported valid.  (In SpecWallet every transaction comes from a wallet
\* and no block is corrupted.)
C6_WalletTxValidates ==
  (~hist.corrupted /\ ~hist.overlap) => isChainValid(chain) = Valid

\* The same for the chains whose transactions all come from handleSend, the
\* wallet without fee: its message is the one isChainValid rebuilds.
C6_NoFeeWalletTxValidates ==
  (~hist.corrupted /\ ~hist.overlap /\ ~FeeTxCommitted)
    => isChainValid(chain) = Valid

MissingFields == "Transaction must include sender and recipient"
MissingSignature == "No signature in transaction"

\* C7: addTransaction throws and leaves pool and chain as they were when
\* sender or recipient is empty (the missing-field error, whatever the
\* signature is), and when both are non-empty but the signature is empty
\* (the missing-signature error).
C7_RejectsIncomplete ==
  [][\A sh \in PoolShapes :
       LET tx == ApiTx(sh[1], sh[2], sh[3], sh[4])
       IN AddTransaction(tx, MaxPool) =>
            /\ (tx.sender = "" \/ tx.recipient = "") =>
                 /\ ret'.error = MissingFields
                 /\ pendingTransactions' = pendingTransactions
                 /\ chain' = chain
            /\ (tx.sender # "" /\ tx.recipient # "" /\ tx.signature = "") =>
                 /\ ret'.error = MissingSignature
                 /\ pendingTransactions' = pendingTransactions
                 /\ chain' = chain]_vars

C7_Witness ==
  /\ ret = [op |-> "addTransaction", error |-> MissingSignature]
  /\ Len(pendingTransactions) = 1
  /\ Len(chain) = 2

\* The other rejection: an empty address, reported after a pool entry and a
\* block exist.
C7_WitnessMissingFields ==
  /\ ret = [op |-> "addTransaction", error |-> MissingFields]
  /\ Len(pendingTransactions) = 1
  /\ Len(chain) = 2

\* C8: addTransaction accepts every transaction whose sender, recipient and
\* signature are non-empty, whether or not the signature verifies and whether
\* or not the sender's balance covers the amount; the transaction becomes the
\* last pool entry, the earlier entries keep their order, the chain is
\* unchanged.
C8_AcceptsComplete ==
  [][\A sh \in PoolShapes :
       LET tx == ApiTx(sh[1], sh[2], sh[3], sh[4])
       IN (/\ tx.sender # "" /\ tx.recipient # "" /\ tx.signature # ""
           /\ AddTransaction(tx, MaxPool)) =>
            /\ ret'.error = ""
            /\ pendingTransactions' = Append(pendingTransactions, tx)
            /\ chain' = chain]_vars

\* An accepted second pool entry whose signature does not verify and whose
\* sender had a negative balance before it was submitted.
C8_Witness ==
  /\ ret = [op |-> "addTransaction", error |-> ""]
  /\ Len(pendingTransactions) = 2
  /\ Len(chain) >= 1
  /\ LET tx == pendingTransactions[2]
     IN /\ ~verifySignature(tx.sender, tx.signature, dataToVerify(tx))
        /\ NumNeg(getBalanceOfAddress(chain, <<pendingTransactions[1]>>,
                                      tx.sender))

\* Sums of amounts, for the statements about balances.
NumPlus(x, y) ==
  [hi |-> x.hi + y.hi + ((x.lo + y.lo) \div Limb), lo |-> (x.lo + y.lo) % Limb]

RECURSIVE Received(_, _)
Received(txs, a) ==
  IF Len(txs) = 0 THEN Num(0)
  ELSE NumPlus(Received(Tail(txs), a),
               IF Head(txs).recipient = a THEN Num(Head(txs).amount) ELSE Num(0))

RECURSIVE Sent(_, _)
Sent(txs, a) ==
  IF Len(txs) = 0 THEN Num(0)
  ELSE NumPlus(Sent(Tail(txs), a),
               IF Head(txs).sender = a THEN Num(Head(txs).amount) ELSE Num(0))

RECURSIVE Committed(_)
Committed(ch) ==
  IF Len(ch) = 0 THEN <<>> ELSE Head(ch).transactions \o Committed(Tail(ch))

\* C9: getBalanceOfAddress(a) is the sum of the committed amounts received
\* by a, minus the sum of the committed amounts sent by a, minus the sum of
\* the pending amounts sent by a; pending transactions to a count nothing.
C9_BalanceIsLedgerSum ==
  \A a \in Addresses :
    getBalanceOfAddress(chain, pendingTransactions, a)
      = NumDiff(NumDiff(Received(Committed(chain), a), Sent(Committed(chain), a)),
                Sent(pendingTransactions, a))

C9_Witness ==
  /\ ret.op = "getBalanceOfAddress"
  /\ ret.address = "A"
  /\ ret.value = getBalanceOfAddress(chain, pendingTransactions, "A")
  /\ Len(chain) = 3
  /\ Received(Committed(chain), "A") # Num(0)
  /\ Sent(Committed(chain), "A") # Num(0)
  /\ Sent(pendingTransactions, "A") # Num(0)
  /\ Received(pendingTransactions, "A") # Num(0)

\* C10: the balances after a mine, compared with the balances before the
\* mined transactions were submitted (same chain, empty pool), nothing else
\* interleaved: the miner has gained the reward plus the included amounts it
\* received less the included amounts it sent, every other address the
\* included amounts it received less the included amounts it sent.  Second
\* conjunct: the same when k earlier entries were already pending at the
\* time of the comparison, their debits being counted before.
C10_MineBalanceDelta ==
  [][(CommitStep(1) /\ Undisturbed(1)) =>
       LET pool   == pendingTransactions
           miner  == gen[1].minerAddress
           block  == chain'[Len(chain')].transactions
           after(a) == getBalanceOfAddress(chain', pendingTransactions', a)
       IN /\ \A a \in Wallets :
               NumDiff(after(a), getBalanceOfAddress(chain, <<>>, a))
                 = NumDiff(NumPlus(IF a = miner THEN Num(miningReward) ELSE Num(0),
                                   Received(pool, a)),
                           Sent(pool, a))
          /\ \A a \in Addresses : \A k \in 0..Len(pool) :
               NumDiff(after(a),
                       getBalanceOfAddress(chain, SubSeq(pool, 1, k), a))
                 = NumDiff(Received(block, a),
                           Sent(SubSeq(block, k + 1, Len(block)), a))]_vars

\* A mine by B has committed a block with a transfer B sent, a transfer B
\* received and the reward.
C10_Witness ==
  /\ gen[1].pc = "yield110"
  /\ gen[1].minerAddress = "B"
  /\ Len(chain) = 3
  /\ Len(chain[3].transactions) = 3
  /\ Sent(chain[3].transactions, "B") # Num(0)
  /\ Received(chain[3].transactions, "B") # Num(DefaultReward)
  /\ pendingTransactions = <<>>

\* What the wallet counts as sent by a: amount plus fee where a fee is
\* present (WalletView.blockActivity).
RECURSIVE SentWithFee(_, _)
SentWithFee(txs, a) ==
  IF Len(txs) = 0 THEN Num(0)
  ELSE NumPlus(SentWithFee(Tail(txs), a),
               IF Head(txs).sender = a
               THEN Num(Head(txs).amount
                        + (IF HasFee(Head(txs)) THEN Head(txs).fee ELSE 0))
               ELSE Num(0))

\* C11: getBalanceOfAddress debits the sender of a transaction that carries
\* a fee by amount + fee, while the transaction is pending and once it is
\* committed: the balance is received minus (amount + fee) sent.
C11_FeeDebited ==
  \A a \in Wallets :
    getBalanceOfAddress(chain, pendingTransactions, a)
      = NumDiff(NumDiff(Received(Committed(chain), a),
                        SentWithFee(Committed(chain), a)),
                SentWithFee(pendingTransactions, a))

\* What holds instead: the fee is debited nowhere, the balance is received
\* minus amounts sent.
C11_AmountOnlyDebited ==
  \A a \in Wallets :
    getBalanceOfAddress(chain, pendingTransactions, a)
      = NumDiff(NumDiff(Received(Committed(chain), a), Sent(Committed(chain), a)),
                Sent(pendingTransactions, a))

\* C12: a mine that the consumer stops at a progress checkpoint appends no
\* block and does not change the pool: no step of a generator other than
\* the one that reaches the final event, the stop included, changes chain or
\* pool.
C12_StoppedMineChangesNothing ==
  [][(gen'[1] # gen[1] /\ gen'[1].pc # "yield110" /\ gen[1].pc # "yield110")
       => (chain' = chain /\ pendingTransactions' = pendingTransactions)]_vars

\* A mine was stopped at the checkpoint of nonce 500 with a transaction
\* pending; the chain is the genesis block alone.
C12_Witness ==
  /\ ret = [op |-> "mineReturn", nonce |-> ProgressEvery]
  /\ gen[1].pc = "idle"
  /\ Len(chain) = 1
  /\ Len(pendingTransactions) = 1

\* C13: setDifficulty and setMiningReward called while a mine is in flight
\* change nothing of that mine: the block it commits has the difficulty and
\* the reward that were configured when it started, and its hash meets the
\* leading-zero target of that difficulty.
C13_InFlightConfigIgnored ==
  [][CommitStep(1) =>
       LET B == chain'[Len(chain')]
       IN /\ B.difficulty = gen[1].startDifficulty
          /\ Substring0(B.hash, gen[1].startDifficulty)
               = ZeroString(gen[1].startDifficulty)
          /\ B.transactions[Len(B.transactions)].amount = gen[1].startReward]_vars

\* The part that holds: the reward of the committed block is the one
\* configured when the mine started, whatever setMiningReward did since.
C13_RewardFixedAtStart ==
  [][CommitStep(1) =>
       LET B == chain'[Len(chain')]
       IN B.transactions[Len(B.transactions)].amount = gen[1].startReward]_vars

\* And the search cannot complete while this.difficulty differs from the
\* length of the target fixed at line 83.
C13_NoCommitWhileDifficultyDiffers ==
  [][(CommitStep(1) /\ gen[1].pc # "await80")
       => difficulty = Len(gen[1].target)]_vars

\* C14: initialize() on an empty chain appends exactly one genesis block
\* (index 0, previousHash "0", no transactions, nonce 0, difficulty 0, hash =
\* calculateHash of those fields); a later initialize(), called after the
\* first has completed, also after blocks were mined, changes neither chain
\* nor pool and leaves no push pending.
C14_InitializeOnce ==
  [][/\ (initCall[1].pc = "await" /\ initCall'[1].pc = "idle") =>
          /\ Len(chain) = 0
          /\ Len(chain') = 1
          /\ LET G == chain'[1]
             IN /\ G.index = 0
                /\ G.previousHash = "0"
                /\ G.transactions = <<>>
                /\ G.nonce = 0
                /\ G.difficulty = 0
                /\ G.hash = calculateHash(0, "0", G.timestamp, <<>>, 0)
          /\ pendingTransactions' = pendingTransactions
     /\ (Len(chain) > 0 /\ InitializeCall(1)) =>
          /\ chain' = chain
          /\ pendingTransactions' = pendingTransactions
          /\ initCall'[1].pc = "idle"]_vars

\* Two blocks were mined, a transaction is pending and the last operation
\* was an initialize(): with the chain at its bound no mine can start, so
\* an idle generator with no return value recorded is the state a later
\* initialize() leaves.
C14_Witness ==
  /\ Len(chain) = MaxChain
  /\ chain[1].index = 0
  /\ chain[2].index = 1
  /\ gen[1].pc = "idle"
  /\ initCall[1].pc = "idle"
  /\ ret = NoRet
  /\ Len(pendingTransactions) = 1

\* The positions (0-based, from 1) of ch at which one of the three checks
\* fails.
FailingPositions(ch) ==
  {i \in 1..(Len(ch) - 1) :
     LET cur == At(ch, i)
         prev == At(ch, i - 1)
     IN \/ cur.previousHash # prev.hash
        \/ \E k \in 1..Len(cur.transactions) :
             /\ cur.transactions[k].sender # SYSTEM
             /\ ~verifySignature(cur.transactions[k].sender,
                                 cur.transactions[k].signature,
                                 dataToVerify(cur.transactions[k]))
        \/ cur.hash # sha256(ToString(cur.index) \o cur.previousHash
                             \o ToString(cur.timestamp)
                             \o JSONstringify(cur.transactions)
                             \o ToString(cur.nonce))}

\* C15: isChainValid returns {false, i} for the smallest position i >= 1 at
\* which the link, a signature of a non-SYSTEM transaction or the recomputed
\* hash fails, and {true, -1} exactly when no position fails; isValid is true
\* if and only if errorBlockIndex is -1, and errorBlockIndex is never 0.
C15_FirstFailingPosition ==
  LET F == FailingPositions(chain)
      r == isChainValid(chain)
  IN /\ F = {} => r = Valid
     /\ F # {} => r = Invalid(CHOOSE i \in F : \A j \in F : i <= j)
     /\ r.isValid <=> r.errorBlockIndex = -1
     /\ r.errorBlockIndex # 0

\* isChainValid has reported position 1 on a chain that fails at positions
\* 1 and 2.
C15_Witness ==
  /\ ret.op = "isChainValid"
  /\ ret.value = Invalid(1)
  /\ FailingPositions(chain) = {1, 2}

\* C17: in every reachable chain state, valid or already corrupted, and for
\* every index i in range, isChainValid() right after corruptBlock(i)
\* returns an errorBlockIndex that is at most i.
C17_CorruptIndexBound ==
  [][\A i \in 0..(MaxChain - 1) :
       (i < Len(chain) /\ CorruptBlock(i))
         => isChainValid(chain').errorBlockIndex <= i]_vars

\* What holds instead: the reported index is at most i when corruptBlock(i)
\* has made position i >= 1 fail, that is unless i = 0 or the first amount
\* of block i was 999999999 already.
C17_CorruptIndexBoundWhenEffective ==
  [][\A i \in 1..(MaxChain - 1) :
       (/\ i < Len(chain)
        /\ At(chain, i).transactions[1].amount # CorruptAmount
        /\ ~BlockFails(At(chain, i), At(chain, i - 1))
        /\ CorruptBlock(i))
         => /\ ~isChainValid(chain').isValid
            /\ isChainValid(chain').errorBlockIndex <= i]_vars

\* C16: on a chain that validates, overwriting the stored hash of the block
\* at any position i (0 <= i < length) with a different value, nothing else
\* touched, makes isChainValid return {false, i}.
C16_HashTamperDetectedAt ==
  [][\A i \in 0..(MaxChain - 1) : \A t \in TamperStrings :
       (/\ t[1] = "hash"
        /\ isChainValid(chain).isValid
        /\ TamperBlock(i, t[1], t[2]))
         => isChainValid(chain') = Invalid(i)]_vars

\* What holds instead: {false, i} for every position i >= 1.
C16_HashTamperDetectedAfterGenesis ==
  [][\A i \in 1..(MaxChain - 1) : \A t \in TamperStrings :
       (/\ t[1] = "hash"
        /\ isChainValid(chain).isValid
        /\ TamperBlock(i, t[1], t[2]))
         => isChainValid(chain') = Invalid(i)]_vars

\* And for the genesis block: {false, 1} when a block follows it, {true, -1}
\* when it is alone.
C16_GenesisHashTamper ==
  [][\A t \in TamperStrings :
       (/\ t[1] = "hash"
        /\ isChainValid(chain).isValid
        /\ TamperBlock(0, t[1], t[2]))
         => isChainValid(chain')
              = (IF Len(chain) > 1 THEN Invalid(1) ELSE Valid)]_vars

\* C18: a change made after commit to any field of a committed non-genesis
\* block (index, timestamp, transactions, previousHash, nonce or difficulty)
\* is detected: isChainValid reports the chain invalid.
C18_FieldTamperDetected ==
  [][\A i \in 1..(MaxChain - 1) :
       \A t \in TamperStrings \cup TamperNumbers \cup TamperLists :
         (/\ t[1] # "hash"
          /\ isChainValid(chain).isValid
          /\ TamperBlock(i, t[1], t[2]))
           => ~isChainValid(chain').isValid]_vars

\* What holds instead: every field but difficulty, which calculateHash does
\* not read.
C18_HashedFieldTamperDetected ==
  [][\A i \in 1..(MaxChain - 1) :
       \A t \in TamperStrings \cup TamperNumbers \cup TamperLists :
         (/\ t[1] \notin {"hash", "difficulty"}
          /\ isChainValid(chain).isValid
          /\ TamperBlock(i, t[1], t[2]))
           => ~isChainValid(chain').isValid]_vars

\* A change of difficulty alone leaves the chain valid.
C18_DifficultyTamperUndetected ==
  [][\A i \in 1..(MaxChain - 1) : \A t \in TamperNumbers :
       (/\ t[1] = "difficulty"
        /\ isChainValid(chain).isValid
        /\ TamperBlock(i, t[1], t[2]))
         => isChainValid(chain').isValid]_vars

\* A transaction of a wallet or of anybody else whose sender is no public
\* key or whose signature is not the sender's signature of the message.
Unverifiable(tx) ==
  /\ tx.sender # SYSTEM
  /\ \/ tx.sender \notin Wallets
     \/ tx.signature # signData(PrivateKeyOf(tx.sender), dataToVerify(tx))

\* C19: isChainValid always yields a definite {isValid, errorBlockIndex};
\* when the block at a position i >= 1 holds a non-SYSTEM transaction whose
\* sender or signature is malformed or does not verify, the result is
\* {false, j} with 1 <= j <= i.
C19_ValidatorDefinite ==
  LET r == isChainValid(chain)
  IN /\ r \in [isValid : BOOLEAN, errorBlockIndex : -1..(Len(chain) - 1)]
     /\ \A i \in 1..(Len(chain) - 1) :
          (\E k \in 1..Len(At(chain, i).transactions) :
             Unverifiable(At(chain, i).transactions[k]))
            => (~r.isValid /\ r.errorBlockIndex \in 1..i)

\* isChainValid has answered {false, 1} on an untouched chain whose block 1
\* holds a mined transaction from the sender HACKER, which is no key.
C19_Witness ==
  /\ ret = [op |-> "isChainValid", value |-> Invalid(1)]
  /\ ~hist.corrupted
  /\ Len(chain) >= 2
  /\ \E k \in 1..Len(chain[2].transactions) :
       /\ chain[2].transactions[k].sender = "HACKER"
       /\ chain[2].transactions[k].signature = "FAKE_SIG"

\* The number of entries of txs equal to tx.
RECURSIVE Occurrences(_, _)
Occurrences(tx, txs) ==
  IF Len(txs) = 0 THEN 0
  ELSE (IF Head(txs) = tx THEN 1 ELSE 0) + Occurrences(tx, Tail(txs))

\* The user transactions of a block, in their order.
UserTxsOf(block) == SelectSeq(block.transactions, LAMBDA tx : tx.sender # SYSTEM)

\* C20: a transaction of a committed block that is resubmitted unchanged is
\* accepted by addTransaction (first conjunct: the replay of a block appends
\* its user transactions to the pool) and included again in the next mined
\* block; a chain that validated before still validates when the block holds
\* resubmitted transactions only, and the sender is debited the amount once
\* more for the new inclusion (second conjunct).
C20_ReplayAccepted ==
  [][/\ \A p \in 0..(MaxChain - 1) :
          (/\ p < Len(chain)
           /\ Len(UserTxsOf(At(chain, p))) > 0
           /\ ReplayTransactions(p, MaxPool))
            => /\ pendingTransactions'
                    = pendingTransactions \o UserTxsOf(At(chain, p))
               /\ chain' = chain
     /\ (CommitStep(1) /\ Undisturbed(1)) =>
          \A k \in 1..Len(pendingTransactions) :
            LET tx == pendingTransactions[k]
                B  == chain'[Len(chain')]
            IN Occurrences(tx, Committed(chain)) > 0 =>
                 /\ Occurrences(tx, B.transactions)
                      = Occurrences(tx, pendingTransactions)
                 /\ Occurrences(tx, Committed(chain'))
                      = Occurrences(tx, Committed(chain))
                          + Occurrences(tx, pendingTransactions)
                 /\ (/\ isChainValid(chain).isValid
                     /\ \A j \in 1..Len(pendingTransactions) :
                          Occurrences(pendingTransactions[j], Committed(chain)) > 0)
                      => isChainValid(chain').isValid
                 /\ NumDiff(getBalanceOfAddress(chain, <<>>, tx.sender),
                            getBalanceOfAddress(chain', pendingTransactions',
                                                tx.sender))
                      = NumDiff(Sent(B.transactions, tx.sender),
                                Received(B.transactions, tx.sender))]_vars

\* The same signed transaction of A is in blocks 1 and 2, the chain has been
\* validated and found valid, and A, who never mined, has been debited twice.
C20_Witness ==
  /\ Len(chain) = 3
  /\ ret = [op |-> "isChainValid", value |-> Valid]
  /\ isChainValid(chain) = Valid
  /\ \E k \in 1..Len(chain[2].transactions) :
       LET tx == chain[2].transactions[k]
       IN /\ tx.sender = "A"
          /\ Occurrences(tx, chain[3].transactions) = 1
          /\ Occurrences(tx, Committed(chain)) = 2
          /\ getBalanceOfAddress(chain, pendingTransactions, "A")
               = NumSub(NumSub(Num(0), tx.amount), tx.amount)

\* The fields of a block that no operation writes after the push.
SameHeader(b1, b2) ==
  /\ b1.index = b2.index
  /\ b1.previousHash = b2.previousHash
  /\ b1.hash = b2.hash
  /\ b1.nonce = b2.nonce
  /\ b1.timestamp = b2.timestamp
  /\ b1.difficulty = b2.difficulty

DigestOf(block) ==
  sha256(ToString(block.index) \o block.previousHash
           \o ToString(block.timestamp) \o JSONstringify(block.transactions)
           \o ToString(block.nonce))

C24_NonNegativeAmounts ==
  /\ \A k \in 1..Len(pendingTransactions) : pendingTransactions[k].amount >= 0
  /\ \A k \in 1..Len(Committed(chain)) : Committed(chain)[k].amount >= 0
  /\ \A a \in Wallets :
       Sent(Committed(chain), a) = Num(0)
         => ~NumNeg(getBalanceOfAddress(chain, <<>>, a))

\* What holds instead: addTransaction looks at sender, recipient and
\* signature only, and an accepted negative amount is mined like any other.
C24_AmountUnchecked ==
  [][\A s \in AmountShapes :
       AddTransaction(ApiTx(s[1], s[2], s[3], s[4]), MaxPool)
         => /\ ret'.error = ""
            /\ pendingTransactions'[Len(pendingTransactions')].amount = s[3]]_vars

\* C25: no accepted transaction is ever dropped: what is in the pool when
\* a mine commits, the only step that removes anything from the pool, is in
\* the block that this mine appends.
C25_NothingDropped ==
  [][\A g \in Gens :
       CommitStep(g) =>
         \A k \in 1..Len(pendingTransactions) :
           Occurrences(pendingTransactions[k],
                       chain'[Len(chain')].transactions) > 0]_vars

\* What holds instead: the block holds the pool as it was when the mine
\* started, and the commit discards whatever was accepted since.
C25_BlockHoldsStartPool ==
  [][\A g \in Gens :
       CommitStep(g) =>
         /\ chain'[Len(chain')].transactions = gen[g].transactions
         /\ UserTxsOf(chain'[Len(chain')]) = gen[g].startPool
         /\ pendingTransactions' = <<>>]_vars

\* C26: the chain stays linked when mines overlap: every block after the
\* first has index = position and previousHash = predecessor's hash, and
\* isChainValid returns valid, also after a second mine was started before
\* the first one committed and both ran to completion.
C26_LinkedUnderOverlap ==
  (hist.overlap /\ ~hist.corrupted /\ \A g \in Gens : gen[g].pc = "idle") =>
    /\ \A i \in 1..(Len(chain) - 1) :
         /\ At(chain, i).index = i
         /\ At(chain, i).previousHash = At(chain, i - 1).hash
    /\ isChainValid(chain) = Valid

\* What holds instead: a mine links its block to the tip it read when it
\* started, wherever the chain has grown to by the time it commits.
C26_BlockLinksToStartTip ==
  [][\A g \in Gens :
       CommitStep(g) =>
         /\ chain'[Len(chain')].index = chain[gen[g].startTip].index + 1
         /\ chain'[Len(chain')].previousHash = chain[gen[g].startTip].hash]_vars

\* The overlapping initialize() calls of one engine.
StartupChain  == 3
StartupShapes == {<<"A", "B", 5, "valid">>}

NextStartup ==
  \/ Tick
  \/ \E c \in InitCalls : InitializeCall(c)
  \/ \E c \in InitCalls : InitializeFinish(c)
  \/ \E s \in StartupShapes :
       AddTransaction(ApiTx(s[1], s[2], s[3], s[4]), MaxPool)
  \/ MineStart(1, "A", StartupChain)
  \/ MineFirstHash(1, MaxNonce)
  \/ MineStep(1, MaxNonce)
  \/ MineFinish(1)
  \/ IsChainValid

SpecStartup == Init /\ [][NextStartup]_vars

\* C27: once no initialize() call is pending and no block was mined, the
\* chain holds exactly one block, also when a second call started before
\* the first had computed the genesis hash.
C27_OneGenesis ==
  ((\A c \in InitCalls : initCall[c].pc = "idle")
     /\ Len(chain) > 0 /\ nextId = 0) => Len(chain) = 1

\* What holds instead: every call that found the chain empty pushes a
\* genesis block, so the chain starts with as many genesis blocks as calls
\* that overlapped.
C27_EveryPendingCallPushes ==
  [][\A c \in InitCalls :
       (initCall[c].pc = "await" /\ initCall'[c].pc = "idle") =>
         /\ Len(chain') = Len(chain) + 1
         /\ chain'[Len(chain')].index = 0
         /\ chain'[Len(chain')].previousHash = "0"]_vars

\* The long searches: one mine at a time, difficulty set between mines.
ProgressNonce        == 1002
ProgressChain        == 2
ProgressPool         == 2
ProgressShapes       == {<<"A", "B", 5, "valid">>, <<"A", "B", 5, "bad">>}
ProgressDifficulties == {0, 3}

NextProgress ==
  \/ InitializeCall(1)
  \/ InitializeFinish(1)
  \/ \E s \in ProgressShapes :
       AddTransaction(ApiTx(s[1], s[2], s[3], s[4]), ProgressPool)
  \/ \E d \in ProgressDifficulties : gen[1].pc = "idle" /\ SetDifficulty(d)
  \/ MineStart(1, "A", ProgressChain)
  \/ MineFirstHash(1, ProgressNonce)
  \/ MineStep(1, ProgressNonce)
  \/ MineResume(1, ProgressNonce)
  \/ MineFinish(1)

SpecProgress == Init /\ [][NextProgress]_vars

\* The hash of generator record r's block with nonce m.
HashOf(r, m) ==
  calculateHash(r.index, r.previousHash, r.timestamp, r.transactions, m)

\* Nonce m of generator record r meets the target string.
Meets(r, target, m) == Substring0(HashOf(r, m), Len(target)) = target

C28_WitnessDifficultyZero ==
  /\ gen[1].pc = "yield110"
  /\ gen[1].target = ""
  /\ gen[1].nonce = 0
  /\ gen[1].events = 0
  /\ ret = ProgressEvent(0, gen[1].hash, TRUE)

\* C29: a mine appends its block and clears the pool in one step, the step
\* that yields the found=true event: no step of a mine appends without
\* clearing or clears without appending, and the state in which the
\* found=true event is received, with the generator still suspended after
\* it, already has the block in the chain and the pool empty.
C29_CommitAtomic ==
  [][\A g \in Gens :
       (gen'[g] # gen[g]) =>
         /\ CommitStep(g) <=> (gen[g].pc # "idle" /\ Len(chain') = Len(chain) + 1)
         /\ CommitStep(g) =>
              /\ chain' = Append(chain, newBlockOf(gen'[g]))
              /\ pendingTransactions' = <<>>
              /\ ret' = ProgressEvent(gen'[g].nonce, gen'[g].hash, TRUE)
              /\ gen'[g].position = Len(chain')
         /\ (~CommitStep(g) /\ gen[g].pc # "idle") =>
              /\ chain' = chain
              /\ pendingTransactions' = pendingTransactions
              /\ (ret'.op = "event" => ~ret'.found)]_vars

\* The found=true event of a mine that started with a pooled transaction
\* has just been yielded: the block is the last of the chain and the pool
\* is empty, and the generator has not been resumed.
C29_Witness ==
  /\ gen[1].pc = "yield110"
  /\ ret = ProgressEvent(gen[1].nonce, gen[1].hash, TRUE)
  /\ Len(gen[1].startPool) > 0
  /\ Len(chain) = gen[1].position
  /\ chain[Len(chain)].hash = gen[1].hash
  /\ chain[Len(chain)].transactions = gen[1].transactions
  /\ pendingTransactions = <<>>

\* C30: a found=false event never carries a hash that meets the target:
\* while a generator is suspended after yielding one, the hash it yielded
\* does not start with the target.
C30_ProgressHashMisses ==
  \A g \in Gens :
    gen[g].pc = "yield91" =>
      Substring0(gen[g].hash, Len(gen[g].target)) # gen[g].target

\* What holds instead: the event of a multiple of 500 is yielded before the
\* loop test, whatever its hash; when that hash meets the target, resuming
\* the generator commits the same nonce and yields the same hash again
\* with found=true.
C30_WinningProgressThenFinal ==
  [][\A g \in Gens :
       (gen[g].pc = "yield91" /\ gen'[g] # gen[g]
          /\ Substring0(gen[g].hash, difficulty) = gen[g].target) =>
         /\ gen'[g].pc = "yield110"
         /\ ret' = ProgressEvent(gen[g].nonce, gen[g].hash, TRUE)
         /\ chain'[Len(chain')].nonce = gen[g].nonce]_vars

\* The found=false event of nonce 1000 carries a hash that meets the
\* target of difficulty 3.
C30_WinningProgressEvent ==
  /\ gen[1].pc = "yield91"
  /\ gen[1].nonce = 2 * ProgressEvery
  /\ gen[1].target = "000"
  /\ ret = ProgressEvent(gen[1].nonce, gen[1].hash, FALSE)
  /\ Substring0(gen[1].hash, 3) = "000"

\* C31: isChainValid does not look at the genesis block's transactions or
\* hash: a chain of length 0 or 1 is valid, and corruptBlock(0) on a valid
\* chain, which changes the genesis transactions and leaves its hash,
\* gives a chain that is still valid.
C31_GenesisNotChecked ==
  /\ [](Len(chain) <= 1 => isChainValid(chain) = Valid)
  /\ [][(Len(chain) > 0 /\ isChainValid(chain) = Valid /\ CorruptBlock(0)) =>
          /\ chain[1].transactions = <<>> => chain'[1].transactions = <<FakeTx>>
          /\ chain'[1].hash = chain[1].hash
          /\ isChainValid(chain') = Valid]_vars

\* isChainValid has returned valid for a chain of three blocks whose
\* genesis block holds the injected transaction under its old hash.
C31_Witness ==
  /\ Len(chain) = 3
  /\ Len(chain[1].transactions) = 1
  /\ chain[1].transactions[1].id = "FAKE"
  /\ chain[1].hash # calculateHash(chain[1].index, chain[1].previousHash,
                       chain[1].timestamp, chain[1].transactions, chain[1].nonce)
  /\ ret = [op |-> "isChainValid", value |-> Valid]

\* Transactions handed to addTransaction with the sentinel as sender.
MintShapes == {<<"A", "B", 5, "valid">>, <<"SYSTEM", "B", 1000, "bad">>}

NextMint ==
  \/ InitializeCall(1)
  \/ InitializeFinish(1)
  \/ \E s \in MintShapes :
       AddTransaction(ApiTx(s[1], s[2], s[3], s[4]), MaxPool)
  \/ MineStart(1, "A", MaxChain)
  \/ MineFirstHash(1, MaxNonce)
  \/ MineStep(1, MaxNonce)
  \/ MineFinish(1)
  \/ IsChainValid
  \/ \E a \in Wallets : GetBalanceOfAddress(a)

SpecMint == Init /\ [][NextMint]_vars

\* The positions of block's transactions whose sender is the sentinel.
SystemPositions(block) ==
  {k \in 1..Len(block.transactions) : block.transactions[k].sender = SYSTEM}

\* C32: every block a mine appended holds exactly one transaction whose
\* sender is SYSTEM, and it is the last one: addTransaction cannot put a
\* further SYSTEM transaction into a block.
C32_OneSystemTxPerBlock ==
  \A p \in 2..Len(chain) :
    SystemPositions(chain[p]) = {Len(chain[p].transactions)}

\* What holds instead: the last transaction of a mined block is the reward
\* the mine built at its start, and whatever the pool held then, SYSTEM
\* senders included, precedes it; the validator skips every one of them.
C32_RewardIsLast ==
  /\ [][\A g \in Gens :
          CommitStep(g) =>
            LET txs == chain'[Len(chain')].transactions
            IN /\ txs[Len(txs)].sender = SYSTEM
               /\ txs[Len(txs)].recipient = gen[g].minerAddress
               /\ txs[Len(txs)].amount = gen[g].startReward
               /\ SubSeq(txs, 1, Len(txs) - 1) = gen[g].startPool]_vars
  /\ [](\A p \in 1..Len(chain) :
          (\A k \in 1..Len(chain[p].transactions) :
             chain[p].transactions[k].sender \in {SYSTEM, "A"})
            => SignaturesValid(chain[p]))

\* A valid chain whose second block credits B with 1000 from SYSTEM next to
\* the miner's reward, and B's balance shows it.
C32_ForgedSystemCredit ==
  /\ Len(chain) >= 2
  /\ Cardinality(SystemPositions(chain[2])) = 2
  /\ isChainValid(chain) = Valid
  /\ ret.op = "getBalanceOfAddress" /\ ret.address = "B"
  /\ ret.value = getBalanceOfAddress(chain, <<>>, "B")
  /\ pendingTransactions = <<>>

\* Every operation that the engine offers, on a short chain.
PermanentPool         == 1
PermanentShapes       == {<<"A", "B", 5, "valid">>, <<"A", "B", 5, "bad">>}
PermanentDifficulties == {1}
PermanentRewards      == {50}

NextPermanent ==
  \/ InitializeCall(1)
  \/ InitializeFinish(1)
  \/ \E s \in PermanentShapes :
       AddTransaction(ApiTx(s[1], s[2], s[3], s[4]), PermanentPool)
  \/ \E d \in PermanentDifficulties : SetDifficulty(d)
  \/ \E a \in PermanentRewards : SetMiningReward(a)
  \/ \E i \in 0..(MaxChain - 1) : CorruptBlock(i)
  \/ MineStart(1, "A", MaxChain)
  \/ MineFirstHash(1, MaxNonce)
  \/ MineStep(1, MaxNonce)
  \/ MineFinish(1)
  \/ IsChainValid

SpecPermanent == Init /\ [][NextPermanent]_vars

\* C33: invalidity is permanent.  No step of addTransaction, a mine,
\* setDifficulty, setMiningReward or corruptBlock takes a chain that
\* isChainValid reports invalid at i to one that it reports valid or
\* invalid at a later position, and the position stays i when the blocks
\* before position i are left as they were.
C33_InvalidityPermanent ==
  [][~isChainValid(chain).isValid =>
       LET i == isChainValid(chain).errorBlockIndex
           after == isChainValid(chain')
       IN /\ ~after.isValid
          /\ after.errorBlockIndex <= i
          /\ SubSeq(chain', 1, i) = SubSeq(chain, 1, i)
               => after.errorBlockIndex = i]_vars

\* isChainValid has returned invalid at position 1 for a chain of three
\* blocks whose block 2 fails as well, after the difficulty and the reward
\* were changed.
C33_Witness ==
  /\ ret = [op |-> "isChainValid", value |-> Invalid(1)]
  /\ Len(chain) = 3
  /\ BlockFails(At(chain, 2), At(chain, 1))
  /\ difficulty # DefaultDifficulty
  /\ miningReward # DefaultReward

\* The wallet's send form with what its number inputs accept: the button
\* asks for amount > 0 and nothing of the fee.
SpendAmounts == {10, 150}
SpendFees    == {1, -100}

NextSpend ==
  \/ InitializeCall(1)
  \/ InitializeFinish(1)
  \/ \E a \in SpendAmounts, f \in SpendFees :
       WalletSendFee("A", "B", a, f, MaxPool)
  \/ MineStart(1, "A", MaxChain)
  \/ MineFirstHash(1, MaxNonce)
  \/ MineStep(1, MaxNonce)
  \/ MineFinish(1)
  \/ GetBalanceOfAddress("A")

SpecSpend == Init /\ [][NextSpend]_vars

\* C34: when every user transaction enters the pool through the wallet's
\* send path, no wallet address ever has a negative balance.
C34_BalanceNeverNegative ==
  \A a \in Wallets :
    ~NumNeg(getBalanceOfAddress(chain, pendingTransactions, a))

\* The fees of every transaction the wallets have sent, pending or mined.
WalletFeesSent ==
  {pendingTransactions[k].fee : k \in 1..Len(pendingTransactions)}
    \cup UNION {{chain[p].transactions[k].fee :
                   k \in {j \in 1..Len(chain[p].transactions) :
                            HasFee(chain[p].transactions[j])}} :
                p \in 1..Len(chain)}

\* What holds instead: balances stay non-negative as long as no
\* transaction was sent with a negative fee.
C34_NonNegativeWithoutNegativeFee ==
  (\A f \in WalletFeesSent : f >= 0) => C34_BalanceNeverNegative

\* A has sent 150 out of a balance of 100 with a fee of -100.
C34_Overspent ==
  /\ Len(pendingTransactions) = 1
  /\ pendingTransactions[1].sender = "A"
  /\ pendingTransactions[1].amount = 150
  /\ pendingTransactions[1].fee = -100
  /\ ret = [op |-> "getBalanceOfAddress", address |-> "A",
            value |-> Num(-50)]

\* The message BlockCard.checkSignatures rebuilds: tx.fee is concatenated
\* whether the transaction has one or not, and a missing field
\* concatenates as "undefined".
cardDataToVerify(tx) ==
  tx.sender \o tx.recipient \o ToString(tx.amount)
    \o (IF HasFee(tx) THEN ToString(tx.fee) ELSE "undefined")
    \o ToString(tx.timestamp)

\* health[tx.id] of BlockCard.checkSignatures
cardVerdict(tx) ==
  \/ tx.sender = SYSTEM
  \/ verifySignature(tx.sender, tx.signature, cardDataToVerify(tx))

\* The effect of BlockCard for the block at position p: the TX Health map,
\* in the order of the block's transactions.
CheckSignatures(p) ==
  /\ p \in 1..Len(chain)
  /\ ret' = [op |-> "txHealth", block |-> p,
             health |-> [k \in 1..Len(chain[p].transactions) |->
                           cardVerdict(chain[p].transactions[k])]]
  /\ UNCHANGED <<engine, now, nextId, initCall, gen, hist>>

CardShapes == {<<"A", "B", 5, "valid">>, <<"A", "B", 5, "bad">>}

NextCard ==
  \/ InitializeCall(1)
  \/ InitializeFinish(1)
  \/ \E a \in WalletAmounts, f \in WalletFees :
       WalletSendFee("A", "B", a, f, MaxPool)
  \/ \E a \in WalletAmounts : WalletSend("A", "B", a, MaxPool)
  \/ \E s \in CardShapes :
       AddTransaction(ApiTx(s[1], s[2], s[3], s[4]), MaxPool)
  \/ MineStart(1, "A", MaxChain)
  \/ MineFirstHash(1, MaxNonce)
  \/ MineStep(1, MaxNonce)
  \/ MineFinish(1)
  \/ IsChainValid
  \/ \E p \in 1..MaxChain : CheckSignatures(p)

SpecCard == Init /\ [][NextCard]_vars

\* isChainValid's verdict on the signature of one transaction.
validatorVerdict(tx) ==
  verifySignature(tx.sender, tx.signature, dataToVerify(tx))

\* C35: for every non-SYSTEM transaction of a committed block, the verdict
\* of BlockCard's TX Health equals the verdict of isChainValid's signature
\* check.
C35_CardAgreesWithValidator ==
  \A p \in 1..Len(chain) : \A k \in 1..Len(chain[p].transactions) :
    LET tx == chain[p].transactions[k]
    IN tx.sender # SYSTEM => (cardVerdict(tx) = validatorVerdict(tx))

\* What holds instead: the two checks rebuild different messages, so no
\* transaction passes both; they agree only on transactions that fail
\* both.
C35_NeverBothAccept ==
  \A p \in 1..Len(chain) : \A k \in 1..Len(chain[p].transactions) :
    LET tx == chain[p].transactions[k]
    IN tx.sender # SYSTEM => ~(cardVerdict(tx) /\ validatorVerdict(tx))

\* The card has marked as healthy a wallet transaction with a fee that
\* makes isChainValid fail, and in the same block as unhealthy a signed
\* transaction without fee that isChainValid accepts.
C35_BothDisagreements ==
  /\ ret.op = "txHealth"
  /\ LET txs == chain[ret.block].transactions
     IN /\ \E k \in 1..Len(txs) :
             /\ txs[k].sender # SYSTEM /\ HasFee(txs[k])
             /\ ret.health[k] /\ ~validatorVerdict(txs[k])
        /\ \E k \in 1..Len(txs) :
             /\ txs[k].sender # SYSTEM /\ ~HasFee(txs[k])
             /\ ~ret.health[k] /\ validatorVerdict(txs[k])

\* Mines under a consumer that keeps calling next(), as the loop of
\* App.mineBlock does: the generator's steps are weakly fair.  The
\* difficulty changes only between mines; at difficulty 4 no nonce up to
\* LiveNonce meets the target.
LiveNonce        == 1002
LiveChain        == 2
LivePool         == 2
LiveShapes       == {<<"A", "B", 5, "valid">>, <<"A", "B", 5, "bad">>}
LiveDifficulties == {3, 4}

\* One call of next() on the generator by the loop of App.mineBlock.
ConsumerNext ==
  \/ MineFirstHash(1, LiveNonce)
  \/ MineStep(1, LiveNonce)
  \/ MineResume(1, LiveNonce)
  \/ MineFinish(1)

NextLive ==
  \/ InitializeCall(1)
  \/ InitializeFinish(1)
  \/ \E s \in LiveShapes :
       AddTransaction(ApiTx(s[1], s[2], s[3], s[4]), LivePool)
  \/ \E d \in LiveDifficulties : gen[1].pc = "idle" /\ SetDifficulty(d)
  \/ MineStart(1, "A", LiveChain)
  \/ ConsumerNext

SpecLive == Init /\ [][NextLive]_vars /\ WF_vars(ConsumerNext)

\* The nonces up to LiveNonce whose hash, for generator record r's block,
\* starts with d zeros: calculateHash with the part of its input that does
\* not depend on the nonce built once.
WinningNonces(r, d) ==
  LET fixed == ToString(r.index) \o r.previousHash \o ToString(r.timestamp)
                 \o JSONstringify(r.transactions)
  IN {m \in 0..LiveNonce :
        Substring0(sha256(fixed \o ToString(m)), d) = ZeroString(d)}

\* The mine that generator g has just started has a nonce, among those the
\* search can try, whose hash meets the target of the current difficulty.
Winnable(g) ==
  gen[g].pc = "await80" /\ WinningNonces(gen[g], difficulty) # {}

\* The mine that generator g has just started has no such nonce.
Hopeless(g) ==
  gen[g].pc = "await80" /\ WinningNonces(gen[g], difficulty) = {}

\* The last multiple of 500 the search can try.
LastCheckpoint == (LiveNonce \div ProgressEvery) * ProgressEvery

\* C36: with a consumer that keeps resuming and the difficulty left alone,
\* a mine for which some nonce meets the target eventually yields
\* found=true with its block committed; a mine for which none does never
\* commits, leaves the chain and what the pool held as they were, and
\* goes on yielding found=false events until the one of the last
\* checkpoint the search can try.
C36_CommitsIffWinnable ==
  /\ Winnable(1) ~> (gen[1].pc = "yield110" /\ ret.op = "event" /\ ret.found)
  /\ Hopeless(1) ~> (/\ gen[1].pc = "yield91"
                     /\ ret = ProgressEvent(LastCheckpoint, gen[1].hash, FALSE))
  /\ [][(gen'[1] # gen[1] /\ gen[1].pc # "idle") =>
          IF CommitStep(1)
          THEN gen'[1].nonce \in WinningNonces(gen[1], difficulty)
          ELSE chain' = chain /\ pendingTransactions' = pendingTransactions]_vars

\* A mine at difficulty 3 has committed nonce 1000 after two progress
\* events.
C36_Witness ==
  /\ gen[1].pc = "yield110"
  /\ gen[1].target = "000"
  /\ gen[1].nonce = LastCheckpoint
  /\ gen[1].events = 2
  /\ Len(chain) = 2

\* A mine at difficulty 4 is at its second progress event with nothing
\* committed.
C36_WitnessHopeless ==
  /\ gen[1].pc = "yield91"
  /\ gen[1].target = "0000"
  /\ gen[1].nonce = LastCheckpoint
  /\ Len(chain) = 1

====
